---- MODULE Spec2Model ----
(***************************************************************************)
(* webm-pub: a live WebM relay.  One POST per channel publishes a WebM     *)
(* stream; the keeper (webmkeeper) keeps header and a rolling body that    *)
(* starts at the last random-access point; the bus (pubsub) fans every     *)
(* fresh element out to the GET requests subscribed to the channel.        *)
(*                                                                         *)
(* Bytes.  A payload byte (the data of a SimpleBlock or Block, which the   *)
(* code decodes) is a number 0..255.  A byte of a serialized element       *)
(* (el.WriteTo, which the code only copies) is <<src, pos, k>>: byte k of   *)
(* the element that the tokenizer produced as number pos of the request    *)
(* body src, so that a lost, repeated, torn or foreign element shows in a  *)
(* buffer.                                                                 *)
(***************************************************************************)
EXTENDS Integers, Sequences, FiniteSets, TLC

\***************************************************************************
\* Helpers for Go slices
\***************************************************************************

\* data[n:] of Go: the slice without its first n elements
Drop(s, n) == SubSeq(s, n + 1, Len(s))

\***************************************************************************
\* webm: the block decoder (src/webm/webm.go 1-174)
\***************************************************************************

None == 0
Xiph == 1
FixedSize == 2
EBML == 3

\* width of an EBML varint, from the highest set bit of its leading byte
varintWidth(f) ==
    IF f >= 128 THEN 1
    ELSE IF f >= 64 THEN 2
    ELSE IF f >= 32 THEN 3
    ELSE IF f >= 16 THEN 4
    ELSE IF f >= 8 THEN 5
    ELSE IF f >= 4 THEN 6
    ELSE IF f >= 2 THEN 7
    ELSE 8

Pow2(n) == IF n = 0 THEN 1 ELSE IF n = 1 THEN 2 ELSE IF n = 2 THEN 4
    ELSE IF n = 3 THEN 8 ELSE IF n = 4 THEN 16 ELSE IF n = 5 THEN 32
    ELSE IF n = 6 THEN 64 ELSE 128

RECURSIVE bigEndian(_, _)
bigEndian(s, acc) ==
    IF s = <<>> THEN acc ELSE bigEndian(Tail(s), acc * 256 + Head(s))

\* varint.Parse, with Uint64() and Size() of the value it returns: the marker
\* bit is stripped and the rest read big-endian.  An empty slice, a leading
\* byte 0 or a slice shorter than the width is an error.
varintParse(data) ==
    IF Len(data) = 0 THEN [err |-> "varint", size |-> 0, value |-> 0]
    ELSE IF data[1] = 0 THEN [err |-> "varint", size |-> 0, value |-> 0]
    ELSE LET w == varintWidth(data[1])
         IN  IF Len(data) < w THEN [err |-> "varint", size |-> 0, value |-> 0]
             ELSE [err |-> "nil", size |-> w,
                   value |-> bigEndian(SubSeq(data, 2, w), data[1] - Pow2(8 - w))]

\* int16(data[1]) | (int16(data[0]) << 8)
timecode16(hi, lo) ==
    LET u == hi * 256 + lo IN IF u >= 32768 THEN u - 65536 ELSE u

\* LacingMode((flags >> 4) & 3)
lacingOf(flags) == (flags \div 16) % 4

blockPanic == [status |-> "panic", TrackNumber |-> 0, Timecode |-> 0,
               Keyframe |-> FALSE, Invisible |-> FALSE, Discardable |-> FALSE,
               Lacing |-> None]

blockErr == [blockPanic EXCEPT !.status = "err"]

\* parseAsSimpleBlock.  An index past the end of a Go slice panics.
parseAsSimpleBlock(data) ==
    LET v == varintParse(data) IN
    IF v.err # "nil" THEN blockErr
    ELSE LET d1 == Drop(data, v.size) IN
         IF Len(d1) < 2 THEN blockPanic
         ELSE LET d2 == Drop(d1, 2) IN
              IF Len(d2) < 1 THEN blockPanic
              ELSE LET flags == d2[1] IN
                   [status |-> "ok",
                    TrackNumber |-> v.value,
                    Timecode |-> timecode16(d1[1], d1[2]),
                    Keyframe |-> (flags \div 128) % 2 = 1,
                    Invisible |-> (flags \div 8) % 2 = 1,
                    Discardable |-> flags % 2 = 1,
                    Lacing |-> lacingOf(flags)]

\* one Xiph frame size: bytes are read until one is below 255
RECURSIVE xiphFrame(_)
xiphFrame(data) ==
    IF Len(data) < 1 THEN [status |-> "panic", data |-> <<>>]
    ELSE IF data[1] < 255 THEN [status |-> "ok", data |-> Tail(data)]
    ELSE xiphFrame(Tail(data))

RECURSIVE xiphFrames(_, _)
xiphFrames(data, n) ==
    IF n = 0 THEN [status |-> "ok", data |-> data]
    ELSE LET r == xiphFrame(data) IN
         IF r.status # "ok" THEN r ELSE xiphFrames(r.data, n - 1)

RECURSIVE ebmlFrames(_, _)
ebmlFrames(data, n) ==
    IF n = 0 THEN [status |-> "ok", data |-> data]
    ELSE LET v == varintParse(data) IN
         IF v.err # "nil" THEN [status |-> "err", data |-> <<>>]
         ELSE ebmlFrames(Drop(data, v.size), n - 1)

\* the lacing preamble of a Block: the frame count and the frame sizes
skipLacing(lacing, data) ==
    IF lacing = None THEN [status |-> "ok", data |-> data]
    ELSE IF Len(data) < 1 THEN [status |-> "panic", data |-> <<>>]
    ELSE IF lacing = Xiph THEN xiphFrames(Tail(data), data[1])
    ELSE IF lacing = EBML THEN ebmlFrames(Tail(data), data[1])
    ELSE [status |-> "ok", data |-> Tail(data)]

\* parseAsBlock: the keyframe is bit 0 of the third byte after the lacing
parseAsBlock(data) ==
    LET v == varintParse(data) IN
    IF v.err # "nil" THEN blockErr
    ELSE LET d1 == Drop(data, v.size) IN
         IF Len(d1) < 2 THEN blockPanic
         ELSE LET d2 == Drop(d1, 2) IN
              IF Len(d2) < 1 THEN blockPanic
              ELSE LET flags == d2[1]
                       rest(l) ==
                           IF l.status = "panic" THEN blockPanic
                           ELSE IF l.status = "err" THEN blockErr
                           ELSE IF Len(l.data) < 3 THEN blockPanic
                           ELSE [status |-> "ok",
                                 TrackNumber |-> v.value,
                                 Timecode |-> timecode16(d1[1], d1[2]),
                                 Keyframe |-> l.data[3] % 2 = 0,
                                 Invisible |-> (flags \div 8) % 2 = 1,
                                 Discardable |-> FALSE,
                                 Lacing |-> lacingOf(flags)]
                   IN  rest(skipLacing(lacingOf(flags), Tail(d2)))

\* AsKeyBlock: (track, keyframe, err) of a SimpleBlock or Block, (0, false,
\* nil) of any other element
AsKeyBlock(e) ==
    LET key(s) == [status |-> s.status, track |-> s.TrackNumber,
                   keyframe |-> s.Keyframe]
    IN  IF e.name = "SimpleBlock" THEN key(parseAsSimpleBlock(e.data))
        ELSE IF e.name = "Block" THEN key(parseAsBlock(e.data))
        ELSE [status |-> "ok", track |-> 0, keyframe |-> FALSE]

\***************************************************************************
\* The element source (edtd.Parser over the request body)
\***************************************************************************

\* el.WriteTo: the bytes of element el, one for its id and size and one for
\* each byte of its data
ElemBytes(el) == [k \in 1..(1 + Len(el.data)) |-> <<el.id[1], el.id[2], k>>]

\* A request body is [elems, end]: the elements the tokenizer yields from it
\* and how it ends, "eof" (the body is exhausted) or "malformed" (the
\* tokenizer cannot decode what follows).  src names the body.
newParser(src, body) ==
    [src |-> src, rest |-> body.elems, pos |-> 0, end |-> body.end]

NilElem == [name |-> "", data |-> <<>>, id |-> <<0, 0>>]

\* next(p): skipLevel is never set (the switch that sets it is commented
\* out), so every element of p.Next() is returned
next(p) ==
    IF p.rest = <<>> THEN
        [err |-> p.end, el |-> NilElem, p |-> p]
    ELSE
        [err |-> "nil",
         el |-> [name |-> Head(p.rest).name, data |-> Head(p.rest).data,
                 id |-> <<p.src, p.pos + 1>>],
         p |-> [p EXCEPT !.rest = Tail(p.rest), !.pos = p.pos + 1]]

\***************************************************************************
\* webmkeeper (src/webm/webm.go 176-343)
\***************************************************************************

\* A WebmKeeper.  rap is history: whether the truncation condition of
\* handleRandomAccessPoint has been met at least once.
NilKeeper ==
    [p |-> [src |-> 0, rest |-> <<>>, pos |-> 0, end |-> "eof"],
     header |-> <<>>, body |-> <<>>, elemBuf |-> <<>>,
     lastCluster |-> 0,
     trackBlockCount |-> <<0, 0>>,
     trackBlockKeyframe |-> <<FALSE, FALSE>>,
     rap |-> FALSE]

RECURSIVE newLoop(_, _)
newLoop(p, header) ==
    LET r == next(p) IN
    IF r.err # "nil" THEN [err |-> r.err, wk |-> NilKeeper]
    ELSE IF r.el.name = "Cluster" THEN
        [err |-> "nil",
         wk |-> [NilKeeper EXCEPT !.p = r.p, !.header = header,
                                  !.body = ElemBytes(r.el)]]
    ELSE newLoop(r.p, header \o ElemBytes(r.el))

\* New(r): everything before the first Cluster goes to header, the first
\* Cluster to body
New(src, body) == newLoop(newParser(src, body), <<>>)

resetTracking(wk) ==
    [wk EXCEPT !.trackBlockCount = <<0, 0>>,
               !.trackBlockKeyframe = <<FALSE, FALSE>>]

\* a count that is incremented as a byte is, wrapping from 255 to 0
incTrackCount_Wrap(wk, trackNumber) ==
    [wk EXCEPT !.trackBlockCount[trackNumber + 1] = (@ + 1) % 256]

\* trackNumber is the index 0 or 1; the count is a byte that stops at 255
incTrackCount(wk, trackNumber) ==
    IF wk.trackBlockCount[trackNumber + 1] < 255
    THEN [wk EXCEPT !.trackBlockCount[trackNumber + 1] = @ + 1]
    ELSE wk

\* a tracking that forgets the counts and flags on an impossible track
trackElem_ResetOnBadTrack(wk, el) ==
    IF el.name = "Cluster" THEN
        [err |-> "nil",
         wk |-> resetTracking([wk EXCEPT !.lastCluster = Len(wk.body)])]
    ELSE IF el.name \in {"SimpleBlock", "Block"} THEN
        LET track(k) ==
                IF k.status = "panic" THEN [err |-> "panic", wk |-> wk]
                ELSE IF k.status = "err" THEN
                    [err |-> "malformed block", wk |-> wk]
                ELSE IF k.track > 2 \/ k.track < 1 THEN
                    [err |-> "impossible track", wk |-> resetTracking(wk)]
                ELSE LET t == k.track - 1
                         w1 == incTrackCount(wk, t)
                     IN  [err |-> "nil",
                          wk |-> IF k.keyframe
                                 THEN [w1 EXCEPT
                                          !.trackBlockKeyframe[t + 1] = TRUE]
                                 ELSE w1]
        IN  track(AsKeyBlock(el))
    ELSE [err |-> "nil", wk |-> wk]

\* handleRandomAccessPoint up to the test of the truncation condition
trackElem(wk, el) ==
    IF el.name = "Cluster" THEN
        [err |-> "nil",
         wk |-> resetTracking([wk EXCEPT !.lastCluster = Len(wk.body)])]
    ELSE IF el.name \in {"SimpleBlock", "Block"} THEN
        LET track(k) ==
                IF k.status = "panic" THEN [err |-> "panic", wk |-> wk]
                ELSE IF k.status = "err" THEN
                    [err |-> "malformed block", wk |-> wk]
                ELSE IF k.track > 2 \/ k.track < 1 THEN
                    [err |-> "impossible track", wk |-> wk]
                ELSE LET t == k.track - 1
                         w1 == incTrackCount(wk, t)
                     IN  [err |-> "nil",
                          wk |-> IF k.keyframe
                                 THEN [w1 EXCEPT
                                          !.trackBlockKeyframe[t + 1] = TRUE]
                                 ELSE w1]
        IN  track(AsKeyBlock(el))
    ELSE [err |-> "nil", wk |-> wk]

\* a truncation condition that does not look at the keyframe flags
isRandomAccessPoint_NoKeyframe(wk, el) ==
    /\ el.name \in {"SimpleBlock", "Block"}
    /\ wk.trackBlockCount[1] = 1
    /\ wk.trackBlockCount[2] = 1

\* the truncation condition: a block of each track, both keyframes
isRandomAccessPoint(wk, el) ==
    /\ el.name \in {"SimpleBlock", "Block"}
    /\ wk.trackBlockCount[1] = 1
    /\ wk.trackBlockCount[2] = 1
    /\ wk.trackBlockKeyframe[1]
    /\ wk.trackBlockKeyframe[2]

\* a copy of all of body
truncCopy_All(wk) == wk.body

\* b := copy of body[lastCluster:]
truncCopy(wk) == Drop(wk.body, wk.lastCluster)

\* wk.body.Reset()
truncReset(wk) == [wk EXCEPT !.body = <<>>, !.rap = TRUE]

\* wk.body.Write(b); wk.lastCluster = 0
truncWrite(wk, b) == [wk EXCEPT !.body = @ \o b, !.lastCluster = 0]

handleRandomAccessPoint(wk, el) ==
    LET test(t) ==
            IF t.err # "nil" THEN t
            ELSE IF isRandomAccessPoint(t.wk, el)
                 THEN [err |-> "nil",
                       wk |-> truncWrite(truncReset(t.wk), truncCopy(t.wk))]
                 ELSE t
    IN  test(trackElem(wk, el))

\* the end of Next: the element is serialized through elemBuf, copied to b
\* and appended to body
appendElem(wk, el) ==
    [wk EXCEPT !.elemBuf = ElemBytes(el), !.body = @ \o ElemBytes(el)]

\* Next: (bytes, err) and the keeper after the call
Next(wk) ==
    LET r == next(wk.p)
        end(h) ==
            IF h.err # "nil" THEN [err |-> h.err, b |-> <<>>, wk |-> h.wk]
            ELSE [err |-> "nil", b |-> ElemBytes(r.el),
                  wk |-> appendElem(h.wk, r.el)]
    IN  IF r.err # "nil" THEN [err |-> r.err, b |-> <<>>, wk |-> wk]
        ELSE end(handleRandomAccessPoint([wk EXCEPT !.p = r.p], r.el))

\* Bootstrap(w): header then body, as the two buffers are when they are read
Bootstrap(wk) == wk.header \o wk.body

\***************************************************************************
\* Bounds and inputs
\***************************************************************************

\* requests the server handles in one run; a request is a POST or a GET
NReq == 3

\* capacity of a subscriber queue, make(chan interface{}, 100), scaled down
QueueCap == 2

\* elements fed to Next in the keeper-only specification
MaxStream == 5

Req == 1..NReq

Channels == {"/stream/x"}

Hdr == [name |-> "EBML", data |-> <<>>]
Seg == [name |-> "Segment", data |-> <<>>]
Cl == [name |-> "Cluster", data |-> <<>>]
Tc == [name |-> "Timecode", data |-> <<>>]
\* SimpleBlocks: track varint, two timecode bytes, flags (0x80 = keyframe)
K1 == [name |-> "SimpleBlock", data |-> <<129, 0, 0, 128>>]
K2 == [name |-> "SimpleBlock", data |-> <<130, 0, 0, 128>>]
N1 == [name |-> "SimpleBlock", data |-> <<129, 0, 0, 0>>]
N2 == [name |-> "SimpleBlock", data |-> <<130, 0, 0, 0>>]
T3 == [name |-> "SimpleBlock", data |-> <<131, 0, 0, 128>>]
T0 == [name |-> "SimpleBlock", data |-> <<128, 0, 0, 128>>]
Short == [name |-> "SimpleBlock", data |-> <<129, 0>>]
\* Blocks without lacing: the keyframe bit is in the third byte after the flags
BK2 == [name |-> "Block", data |-> <<130, 0, 0, 0, 0, 0, 0>>]
BN2 == [name |-> "Block", data |-> <<130, 0, 0, 0, 0, 0, 1>>]

\* the request bodies a POST may carry
PostBodies ==
    { [elems |-> <<Hdr, Cl, Cl, K1, K2>>, end |-> "eof"],
      [elems |-> <<Hdr, Cl, N1>>, end |-> "malformed"],
      [elems |-> <<Hdr>>, end |-> "eof"],
      [elems |-> <<Hdr, Cl, Short>>, end |-> "eof"],
      [elems |-> <<Hdr, Cl, T3>>, end |-> "eof"] }

NoBody == [elems |-> <<>>, end |-> "eof"]

\***************************************************************************
\* State
\***************************************************************************

VARIABLES
    method,     \* per request: "", "POST" or "GET"
    pc,         \* per request: where ServeHTTP stands
    channel,    \* per request: req.URL.Path
    reqBody,    \* per request: req.Body, as it will be read
    status,     \* per request: the code written by WriteHeader, 0 if none
    wk,         \* per POST: its WebmKeeper (connState.keeper)
    el,         \* per POST: the element Next is working on
    b,          \* per POST: the local slice b of handleRandomAccessPoint / Next
    err,        \* per POST: the error of New or of the last Next, "nil" if none
    keepers,    \* main.keepers: channel -> the POST whose keeper it holds, 0 if none
    mux,        \* PubSubMux.mux: channel -> bus, 0 if none; a bus is named by
                \* the request whose call made it
    bus,        \* per bus: the pubSub (srcGotten, src closed, dsts, spin running)
    ch,         \* per POST: the bus whose src GetPubCh returned
    queue,      \* per GET: its subscriber channel ch, a FIFO
    qclosed,    \* per GET: whether its channel has been closed
    k,          \* per GET: the keeper getKeeper returned (the POST owning it)
    sent,       \* per GET: the bytes written to the response
    onClose,    \* per request: how often app.OnClose has run
    hist,       \* per GET, history: boot (what Bootstrap wrote of body, and
                \* in which keeper state), offered (what spin handled while the
                \* queue was in dsts), taken (what the request dequeued)
    accepted,   \* per POST, history: the messages spin received from it
    panicked,   \* per request: whether a panic is unwinding (or has unwound) it
    skwk, skin, skres   \* the keeper-only specification: keeper, input, result

vars == <<method, pc, channel, reqBody, status, wk, el, b, err, keepers, mux, bus,
          ch, queue, qclosed, k, sent, onClose, hist, accepted, panicked,
          skwk, skin, skres>>

httpVars == <<method, pc, channel, reqBody, status, wk, el, b, err, keepers, mux,
              bus, ch, queue, qclosed, k, sent, onClose, hist, accepted,
              panicked>>

keeperVars == <<skwk, skin, skres>>

NilBus == [made |-> FALSE, srcGotten |-> FALSE, srcClosed |-> FALSE,
           dsts |-> {}, spinning |-> FALSE]

NilHist == [booted |-> FALSE, body |-> <<>>, rap |-> FALSE, inNext |-> FALSE,
            offered |-> <<>>, taken |-> <<>>]

HttpInit ==
    /\ method = [r \in Req |-> ""]
    /\ pc = [r \in Req |-> "idle"]
    /\ channel = [r \in Req |-> ""]
    /\ reqBody = [r \in Req |-> NoBody]
    /\ status = [r \in Req |-> 0]
    /\ wk = [r \in Req |-> NilKeeper]
    /\ el = [r \in Req |-> NilElem]
    /\ b = [r \in Req |-> <<>>]
    /\ err = [r \in Req |-> "nil"]
    /\ keepers = [c \in Channels |-> 0]
    /\ mux = [c \in Channels |-> 0]
    /\ bus = [r \in Req |-> NilBus]
    /\ ch = [r \in Req |-> 0]
    /\ queue = [r \in Req |-> <<>>]
    /\ qclosed = [r \in Req |-> FALSE]
    /\ k = [r \in Req |-> 0]
    /\ sent = [r \in Req |-> <<>>]
    /\ onClose = [r \in Req |-> 0]
    /\ hist = [r \in Req |-> NilHist]
    /\ accepted = [r \in Req |-> <<>>]
    /\ panicked = [r \in Req |-> FALSE]

KeeperIdle ==
    /\ skwk = NilKeeper
    /\ skin = <<>>
    /\ skres = [op |-> "none", err |-> "nil", b |-> <<>>, n |-> 0]

Init == HttpInit /\ KeeperIdle

\***************************************************************************
\* main: the registry of keepers (src/main.go 18-42)
\***************************************************************************

getKeeper(ks, c) == [k |-> ks[c], ok |-> ks[c] # 0]

\* addKeeper without the test for a keeper that is already there
addKeeper_Overwrite(ks, c, r) ==
    [ok |-> TRUE, keepers |-> [ks EXCEPT ![c] = r]]

addKeeper(ks, c, r) ==
    IF ks[c] # 0 THEN [ok |-> FALSE, keepers |-> ks]
    ELSE [ok |-> TRUE, keepers |-> [ks EXCEPT ![c] = r]]

remKeeper(ks, c) == [ks EXCEPT ![c] = 0]

\* app.OnClose: the keepers after it; only a POST (isBcaster) removes one
OnClose(ks, m, c) == IF m = "POST" THEN remKeeper(ks, c) ELSE ks

\***************************************************************************
\* pubsub (src/webm/webm.go 345-502).  Every method of PubSubMux runs under
\* muxLock, so each is one step.  spin is at its select whenever it runs:
\* the sends of its loop over dsts never block, so a send to addDst, remDst
\* or src of a running spin is taken and handled in the same step.
\***************************************************************************

\* newPubSub, started by request r
newPubSub == [made |-> TRUE, srcGotten |-> FALSE, srcClosed |-> FALSE,
              dsts |-> {}, spinning |-> TRUE]

\* the bus of channel c after "p, ok := pmux.mux[channel]; if !ok { ... }"
lookupOrMake(m, bs, c, r) ==
    IF m[c] # 0 THEN [mux |-> m, bus |-> bs, p |-> m[c]]
    ELSE [mux |-> [m EXCEPT ![c] = r], bus |-> [bs EXCEPT ![r] = newPubSub],
          p |-> r]

\* GetPubCh that forgets srcGotten: every caller is told the sink is fresh
GetPubCh_NoSrcGotten(m, bs, c, r) ==
    LET l == lookupOrMake(m, bs, c, r) IN
    [mux |-> l.mux, bus |-> l.bus, src |-> l.p, exists |-> FALSE]

GetPubCh(m, bs, c, r) ==
    LET l == lookupOrMake(m, bs, c, r) IN
    [mux |-> l.mux,
     bus |-> [l.bus EXCEPT ![l.p].srcGotten = TRUE],
     src |-> l.p,
     exists |-> l.bus[l.p].srcGotten]

\* a ClosePubCh that leaves the closed bus in the registry
ClosePubCh_KeepInMux(m, bs, c) ==
    IF m[c] = 0 THEN [ok |-> FALSE, mux |-> m, bus |-> bs]
    ELSE [ok |-> TRUE,
          mux |-> m,
          bus |-> [bs EXCEPT ![m[c]].srcClosed = TRUE]]

ClosePubCh(m, bs, c) ==
    IF m[c] = 0 THEN [ok |-> FALSE, mux |-> m, bus |-> bs]
    ELSE [ok |-> TRUE,
          mux |-> [m EXCEPT ![c] = 0],
          bus |-> [bs EXCEPT ![m[c]].srcClosed = TRUE]]

\* case ch := <-p.addDst
spinAdd(p, q) == [p EXCEPT !.dsts = @ \cup {q}]

\* a removal that empties the set
spinRem_All(p, q) == [p EXCEPT !.dsts = {}]

\* case ch := <-p.remDst
spinRem(p, q) == [p EXCEPT !.dsts = @ \ {q}]

\* the send to addDst is taken by a running spin, and times out after one
\* second on a spin that has ended
AddSubCh(m, bs, c, r) ==
    LET l == lookupOrMake(m, bs, c, r) IN
    [mux |-> l.mux,
     bus |-> IF l.bus[l.p].spinning
             THEN [l.bus EXCEPT ![l.p] = spinAdd(@, r)]
             ELSE l.bus]

RemSubCh(m, bs, c, r) ==
    IF m[c] = 0 THEN [mux |-> m, bus |-> bs]
    ELSE [mux |-> m,
          bus |-> IF bs[m[c]].spinning
                  THEN [bs EXCEPT ![m[c]] = spinRem(@, r)]
                  ELSE bs]

\* a spin that puts the message at the head of the queue
spinPublish_Prepend(qs, dsts, msg) ==
    [s \in Req |-> IF s \in dsts /\ Len(qs[s]) < QueueCap
                   THEN <<msg>> \o qs[s]
                   ELSE qs[s]]

\* a spin that hands the message to no queue when one queue is full
spinPublish_AllOrNothing(qs, dsts, msg) ==
    [s \in Req |-> IF s \in dsts /\ \A d \in dsts : Len(qs[d]) < QueueCap
                   THEN Append(qs[s], msg)
                   ELSE qs[s]]

\* case msg, ok := <-p.src with ok: the message goes to every queue of dsts
\* that has room, and is dropped for a queue that is full
spinPublish(qs, dsts, msg) ==
    [s \in Req |-> IF s \in dsts /\ Len(qs[s]) < QueueCap
                   THEN Append(qs[s], msg)
                   ELSE qs[s]]

\* after the loop: close(ch) for every ch of dsts
spinClose(qc, dsts) == [s \in Req |-> qc[s] \/ s \in dsts]

\***************************************************************************
\* httppubsub.ServeHTTP with the app of main (src/http-pub-sub/http.go
\* 112-163, src/main.go 47-97), one action per step of a request
\***************************************************************************

\* a POST arrives: OnOpen builds the keeper from the body and registers it
PostOnOpen(r) ==
    /\ pc[r] = "idle"
    /\ \E c \in Channels, body \in PostBodies :
        LET n == New(r, body)
            a == addKeeper(keepers, c, r)
        IN  /\ method' = [method EXCEPT ![r] = "POST"]
            /\ channel' = [channel EXCEPT ![r] = c]
            /\ reqBody' = [reqBody EXCEPT ![r] = body]
            /\ err' = [err EXCEPT ![r] = n.err]
            /\ IF n.err # "nil" THEN
                   /\ status' = [status EXCEPT ![r] = 400]
                   /\ pc' = [pc EXCEPT ![r] = "done"]
                   /\ UNCHANGED <<wk, keepers>>
               ELSE IF ~a.ok THEN
                   /\ status' = [status EXCEPT ![r] = 400]
                   /\ pc' = [pc EXCEPT ![r] = "done"]
                   /\ wk' = [wk EXCEPT ![r] = n.wk]
                   /\ UNCHANGED keepers
               ELSE
                   /\ wk' = [wk EXCEPT ![r] = n.wk]
                   /\ keepers' = a.keepers
                   /\ pc' = [pc EXCEPT ![r] = "getpub"]
                   /\ UNCHANGED status
    /\ UNCHANGED <<keeperVars, el, b, mux, bus, ch, queue, qclosed, k, sent, onClose,
                   hist, accepted, panicked>>

\* ch, exists := h.pmux.GetPubCh(channel); 403 if exists
PostGetPubCh(r) ==
    /\ pc[r] = "getpub"
    /\ LET g == GetPubCh(mux, bus, channel[r], r) IN
        /\ mux' = g.mux
        /\ bus' = g.bus
        /\ IF g.exists THEN
               /\ status' = [status EXCEPT ![r] = 403]
               /\ pc' = [pc EXCEPT ![r] = "onclose"]
               /\ UNCHANGED ch
           ELSE
               /\ ch' = [ch EXCEPT ![r] = g.src]
               /\ pc' = [pc EXCEPT ![r] = "next"]
               /\ UNCHANGED status
    /\ UNCHANGED <<keeperVars, err, method, channel, reqBody, wk, el, b, keepers, queue,
                   qclosed, k, sent, onClose, hist, accepted, panicked>>

\* GetNext -> keeper.Next up to the truncation: the element is read and
\* tracked.  An error ends the request with 500 after remKeeper; a panic of
\* the block decoder unwinds ServeHTTP, which runs the deferred ClosePubCh
\* and nothing else.
PostGetNext(r) ==
    /\ pc[r] = "next"
    /\ LET n == next(wk[r].p)
           t == trackElem([wk[r] EXCEPT !.p = n.p], n.el)
       IN  IF n.err # "nil" \/ t.err \notin {"nil", "panic"} THEN
               /\ err' = [err EXCEPT ![r] = IF n.err # "nil" THEN n.err ELSE t.err]
               /\ keepers' = remKeeper(keepers, channel[r])
               /\ status' = [status EXCEPT ![r] = 500]
               /\ pc' = [pc EXCEPT ![r] = "closepub"]
               /\ wk' = [wk EXCEPT ![r].p = n.p]
               /\ UNCHANGED <<el, b, panicked>>
           ELSE IF t.err = "panic" THEN
               /\ panicked' = [panicked EXCEPT ![r] = TRUE]
               /\ pc' = [pc EXCEPT ![r] = "closepub"]
               /\ wk' = [wk EXCEPT ![r].p = n.p]
               /\ UNCHANGED <<el, b, err, keepers, status>>
           ELSE IF isRandomAccessPoint(t.wk, n.el) THEN
               /\ b' = [b EXCEPT ![r] = truncCopy(t.wk)]
               /\ wk' = [wk EXCEPT ![r] = truncReset(t.wk)]
               /\ el' = [el EXCEPT ![r] = n.el]
               /\ pc' = [pc EXCEPT ![r] = "trunc"]
               /\ UNCHANGED <<err, keepers, status, panicked>>
           ELSE
               /\ wk' = [wk EXCEPT ![r] = t.wk]
               /\ el' = [el EXCEPT ![r] = n.el]
               /\ pc' = [pc EXCEPT ![r] = "write"]
               /\ UNCHANGED <<b, err, keepers, status, panicked>>
    /\ UNCHANGED <<keeperVars, method, channel, reqBody, mux, bus, ch, queue, qclosed, k,
                   sent, onClose, hist, accepted>>

\* handleRandomAccessPoint after body.Reset(): body.Write(b), lastCluster = 0
PostTruncate(r) ==
    /\ pc[r] = "trunc"
    /\ wk' = [wk EXCEPT ![r] = truncWrite(@, b[r])]
    /\ pc' = [pc EXCEPT ![r] = "write"]
    /\ UNCHANGED <<keeperVars, err, method, channel, reqBody, status, el, b, keepers, mux, bus,
                   ch, queue, qclosed, k, sent, onClose, hist, accepted,
                   panicked>>

\* the end of Next: b is the element's bytes, appended to body and returned
PostAppend(r) ==
    /\ pc[r] = "write"
    /\ wk' = [wk EXCEPT ![r] = appendElem(@, el[r])]
    /\ b' = [b EXCEPT ![r] = ElemBytes(el[r])]
    /\ pc' = [pc EXCEPT ![r] = "send"]
    /\ UNCHANGED <<keeperVars, err, method, channel, reqBody, status, el, keepers, mux, bus,
                   ch, queue, qclosed, k, sent, onClose, hist, accepted,
                   panicked>>

\* ch <- b: spin takes the message and hands it to its queues
PostPublish(r) ==
    /\ pc[r] = "send"
    /\ bus[ch[r]].spinning
    /\ ~bus[ch[r]].srcClosed
    /\ queue' = spinPublish(queue, bus[ch[r]].dsts, b[r])
    /\ hist' = [s \in Req |->
                  IF s \in bus[ch[r]].dsts
                  THEN [hist[s] EXCEPT !.offered = Append(@, b[r])]
                  ELSE hist[s]]
    /\ accepted' = [accepted EXCEPT ![r] = Append(@, b[r])]
    /\ pc' = [pc EXCEPT ![r] = "next"]
    /\ UNCHANGED <<keeperVars, err, method, channel, reqBody, status, wk, el, b, keepers, mux,
                   bus, ch, qclosed, k, sent, onClose, panicked>>

\* defer h.pmux.ClosePubCh(channel), as the publisher's request returns
PostClosePubCh(r) ==
    /\ pc[r] = "closepub"
    /\ LET c == ClosePubCh(mux, bus, channel[r]) IN
        /\ mux' = c.mux
        /\ bus' = c.bus
    /\ pc' = [pc EXCEPT ![r] = "done"]
    /\ UNCHANGED <<keeperVars, err, method, channel, reqBody, status, wk, el, b, keepers, ch,
                   queue, qclosed, k, sent, onClose, hist, accepted, panicked>>

\* doLast after the 403 of a POST: app.OnClose removes the channel's keeper
DoLast(r) ==
    /\ pc[r] = "onclose"
    /\ onClose' = [onClose EXCEPT ![r] = @ + 1]
    /\ keepers' = OnClose(keepers, method[r], channel[r])
    /\ pc' = [pc EXCEPT ![r] = "done"]
    /\ UNCHANGED <<keeperVars, err, method, channel, reqBody, status, wk, el, b, mux, bus, ch,
                   queue, qclosed, k, sent, hist, accepted, panicked>>

\* spin sees src closed: it leaves the loop and closes every queue of dsts
SpinExit(p) ==
    /\ bus[p].spinning
    /\ bus[p].srcClosed
    /\ qclosed' = spinClose(qclosed, bus[p].dsts)
    /\ bus' = [bus EXCEPT ![p].spinning = FALSE]
    /\ UNCHANGED <<keeperVars, err, method, pc, channel, reqBody, status, wk, el, b, keepers,
                   mux, ch, queue, k, sent, onClose, hist, accepted, panicked>>

\* a GET arrives: OnOpen looks the keeper up, 404 if there is none
GetOnOpen(r) ==
    /\ pc[r] = "idle"
    /\ \E c \in Channels :
        LET g == getKeeper(keepers, c) IN
        /\ method' = [method EXCEPT ![r] = "GET"]
        /\ channel' = [channel EXCEPT ![r] = c]
        /\ IF g.ok THEN
               /\ k' = [k EXCEPT ![r] = g.k]
               /\ pc' = [pc EXCEPT ![r] = "boot"]
               /\ UNCHANGED status
           ELSE
               /\ status' = [status EXCEPT ![r] = 404]
               /\ pc' = [pc EXCEPT ![r] = "done"]
               /\ UNCHANGED k
    /\ UNCHANGED <<keeperVars, err, reqBody, wk, el, b, keepers, mux, bus, ch, queue, qclosed,
                   sent, onClose, hist, accepted, panicked>>

\* k.Bootstrap(w): no lock is held, so the buffers are read in whatever
\* state the publisher's Next has left them
GetBootstrap(r) ==
    /\ pc[r] = "boot"
    /\ sent' = [sent EXCEPT ![r] = Bootstrap(wk[k[r]])]
    /\ hist' = [hist EXCEPT ![r] =
                  [@ EXCEPT !.booted = TRUE,
                            !.body = wk[k[r]].body,
                            !.rap = wk[k[r]].rap,
                            !.inNext = pc[k[r]] \in {"trunc", "write"}]]
    /\ pc' = [pc EXCEPT ![r] = "addsub"]
    /\ UNCHANGED <<keeperVars, err, method, channel, reqBody, status, wk, el, b, keepers, mux,
                   bus, ch, queue, qclosed, k, onClose, accepted, panicked>>

\* ch := make(chan interface{}, 100); h.pmux.AddSubCh(channel, ch)
GetAddSubCh(r) ==
    /\ pc[r] = "addsub"
    /\ LET a == AddSubCh(mux, bus, channel[r], r) IN
        /\ mux' = a.mux
        /\ bus' = a.bus
    /\ pc' = [pc EXCEPT ![r] = "recv"]
    /\ UNCHANGED <<keeperVars, err, method, channel, reqBody, status, wk, el, b, keepers, ch,
                   queue, qclosed, k, sent, onClose, hist, accepted, panicked>>

\* for bi := range ch: one message is taken and written to the response;
\* the write fails when the client is gone
GetRange(r) ==
    /\ pc[r] = "recv"
    /\ queue[r] # <<>>
    /\ queue' = [queue EXCEPT ![r] = Tail(@)]
    /\ hist' = [hist EXCEPT ![r].taken = Append(@, Head(queue[r]))]
    /\ \E ok \in BOOLEAN :
        IF ok THEN /\ sent' = [sent EXCEPT ![r] = @ \o Head(queue[r])]
                   /\ UNCHANGED pc
        ELSE /\ pc' = [pc EXCEPT ![r] = "remsub"]
             /\ UNCHANGED sent
    /\ UNCHANGED <<keeperVars, err, method, channel, reqBody, status, wk, el, b, keepers, mux,
                   bus, ch, qclosed, k, onClose, accepted, panicked>>

\* the range ends: the queue is closed and empty; doLast runs app.OnClose
GetRangeEnd(r) ==
    /\ pc[r] = "recv"
    /\ queue[r] = <<>>
    /\ qclosed[r]
    /\ onClose' = [onClose EXCEPT ![r] = @ + 1]
    /\ keepers' = OnClose(keepers, method[r], channel[r])
    /\ pc' = [pc EXCEPT ![r] = "done"]
    /\ UNCHANGED <<keeperVars, err, method, channel, reqBody, status, wk, el, b, mux,
                   bus, ch, queue, qclosed, k, sent, hist, accepted, panicked>>

\* h.pmux.RemSubCh(channel, ch) after a failed write, then doLast
GetRemSubCh(r) ==
    /\ pc[r] = "remsub"
    /\ LET x == RemSubCh(mux, bus, channel[r], r) IN
        /\ mux' = x.mux
        /\ bus' = x.bus
    /\ onClose' = [onClose EXCEPT ![r] = @ + 1]
    /\ keepers' = OnClose(keepers, method[r], channel[r])
    /\ pc' = [pc EXCEPT ![r] = "done"]
    /\ UNCHANGED <<keeperVars, err, method, channel, reqBody, status, wk, el, b, ch,
                   queue, qclosed, k, sent, hist, accepted, panicked>>

SpecNext ==
    \/ \E r \in Req : PostOnOpen(r)
    \/ \E r \in Req : PostGetPubCh(r)
    \/ \E r \in Req : PostGetNext(r)
    \/ \E r \in Req : PostTruncate(r)
    \/ \E r \in Req : PostAppend(r)
    \/ \E r \in Req : PostPublish(r)
    \/ \E r \in Req : PostClosePubCh(r)
    \/ \E r \in Req : DoLast(r)
    \/ \E r \in Req : SpinExit(r)
    \/ \E r \in Req : GetOnOpen(r)
    \/ \E r \in Req : GetBootstrap(r)
    \/ \E r \in Req : GetAddSubCh(r)
    \/ \E r \in Req : GetRange(r)
    \/ \E r \in Req : GetRangeEnd(r)
    \/ \E r \in Req : GetRemSubCh(r)

Spec == Init /\ [][SpecNext]_vars

\***************************************************************************
\* The keeper alone: New on the start of a stream, then Next on one element
\* after another, for every stream over the alphabet up to MaxStream
\***************************************************************************

\* the ways a stream may start
StreamHeads == { <<Hdr, Cl>>, <<Hdr, Seg, Cl>>, <<Hdr>> }

\* the elements that may follow
StreamElems == { Cl, Tc, K1, K2, N1, N2, BK2, BN2, T3, T0, Short }

\* New(r) on a stream that starts with h
KeeperNew ==
    /\ skres.op = "none"
    /\ \E h \in StreamHeads :
        \E n \in {New(0, [elems |-> h, end |-> "eof"])} :
        /\ skwk' = n.wk
        /\ skin' = h
        /\ skres' = [op |-> "new", err |-> n.err, b |-> <<>>, n |-> 0]
    /\ UNCHANGED httpVars

\* Next() when the stream goes on with element e
KeeperFeed ==
    /\ skres.op # "none"
    /\ skres.err = "nil"
    /\ skres.n < MaxStream
    /\ \E e \in StreamElems :
        \E n \in {Next([skwk EXCEPT !.p.rest = <<e>>])} :
        /\ skwk' = n.wk
        /\ skin' = Append(skin, e)
        /\ skres' = [op |-> "next", err |-> n.err, b |-> n.b,
                     n |-> skres.n + 1]
    /\ UNCHANGED httpVars

\* Next() when the stream has ended
KeeperEnd ==
    /\ skres.op # "none"
    /\ skres.err = "nil"
    /\ \E n \in {Next(skwk)} :
        /\ skwk' = n.wk
        /\ skres' = [op |-> "next", err |-> n.err, b |-> n.b, n |-> skres.n]
    /\ UNCHANGED skin
    /\ UNCHANGED httpVars

KeeperNext == KeeperNew \/ KeeperFeed \/ KeeperEnd

SpecKeeper == Init /\ [][KeeperNext]_vars

\***************************************************************************
\* Properties
\***************************************************************************

\* a POST that is inside the publish loop of ServeHTTP: GetPubCh gave it the
\* sink with exists = false and its deferred ClosePubCh has not run
InLoop(r) ==
    /\ method[r] = "POST"
    /\ pc[r] \in {"next", "trunc", "write", "send", "closepub"}

\* C1: in every reachable state every channel has at most one POST inside
\* the publish loop, whatever POSTs and GETs run concurrently on it
C1_OnePublisherPerChannel ==
    \A c \in Channels :
        Cardinality({r \in Req : InLoop(r) /\ channel[r] = c}) <= 1

\* C1 witness: a POST is in the loop with a subscriber on its bus while a
\* second POST on the channel has been turned away
C1_Witness ==
    \E p, q, g \in Req :
        /\ InLoop(p) /\ pc[p] = "send"
        /\ method[q] = "POST" /\ q # p /\ channel[q] = channel[p]
        /\ pc[q] = "done" /\ err[q] = "nil"
        /\ method[g] = "GET" /\ g \in bus[ch[p]].dsts

\* a publisher that is live: its keeper is registered and it holds the sink
LivePub(p) ==
    /\ InLoop(p)
    /\ keepers[channel[p]] = p

\* C2: while publisher p is live, a step of any other POST q on the channel
\* ends q with 400 or 403 and leaves p's keeper registered, p's bus in the
\* registry and the bus (src open, subscriber set, spin) as it was
C2_SecondPostRejected ==
    [][\A p, q \in Req :
          ( /\ p # q
            /\ LivePub(p)
            /\ method'[q] = "POST"
            /\ channel'[q] = channel[p]
            /\ pc'[q] # pc[q] )
          => ( /\ pc'[q] = "done"
               /\ status'[q] \in {400, 403}
               /\ keepers'[channel[p]] = p
               /\ mux'[channel[p]] = ch[p]
               /\ bus'[ch[p]] = bus[ch[p]]
               /\ ~bus'[ch[p]].srcClosed
               /\ wk'[p] = wk[p] )]_vars

\* C2 witness: p is live with a subscriber, and a second POST whose header
\* was valid has ended with 400
C2_Witness ==
    \E p, q, g \in Req :
        /\ LivePub(p) /\ pc[p] = "next" /\ accepted[p] # <<>>
        /\ method[q] = "POST" /\ q # p /\ channel[q] = channel[p]
        /\ pc[q] = "done" /\ status[q] = 400 /\ err[q] = "nil"
        /\ method[g] = "GET" /\ bus[ch[p]].dsts = {g}

\* whether a POST that arrives now on channel c with a valid header becomes
\* the publisher: addKeeper succeeds and GetPubCh returns exists = false
WouldPublish(c) ==
    LET r == CHOOSE x \in Req : TRUE IN
    /\ addKeeper(keepers, c, r).ok
    /\ ~GetPubCh(mux, bus, c, r).exists

\* C3: once a publisher's POST on a channel has ended, by the end of its
\* stream or by an error, and no other POST on the channel is under way, a
\* new POST with a valid header is accepted as publisher, whatever GETs run
C3_ChannelReleased ==
    \A c \in Channels :
        ( /\ \E p \in Req : /\ method[p] = "POST" /\ channel[p] = c
                            /\ ch[p] # 0 /\ pc[p] = "done"
          /\ \A q \in Req : (method[q] = "POST" /\ channel[q] = c)
                            => pc[q] = "done" )
        => WouldPublish(c)

\* C4: when the publisher of a channel has closed, no GET that was accepted
\* against its keeper is left waiting: in a state where the publisher has
\* ended (here: by GetNext returning an error), every other request has
\* ended or not arrived and no spin has a close left to do, the GET is not
\* blocked on an open, empty queue
C4_SubscribersReleased ==
    \A g \in Req :
        ( /\ method[g] = "GET" /\ k[g] # 0
          /\ pc[k[g]] = "done" /\ ~panicked[k[g]]
          /\ \A q \in Req \ {g} : pc[q] \in {"idle", "done"}
          /\ \A p \in Req : ~(bus[p].spinning /\ bus[p].srcClosed) )
        => ~(pc[g] = "recv" /\ queue[g] = <<>> /\ ~qclosed[g])

\* the positions (in the publisher's body) of the elements of a byte string
ElemsOf(bytes) == {bytes[i][2] : i \in DOMAIN bytes}

\* the positions of the elements of a sequence of messages
ElemsOfMsgs(msgs) == {msgs[i][1][2] : i \in DOMAIN msgs}

\* C5: for a subscriber that has joined the bus, the bootstrap body and the
\* messages the bus handled for its queue hold every element its publisher
\* has published from the bootstrap's first element on, and none twice
\* (stated for a Bootstrap that ran between two Next calls of the publisher)
C5_NoLossNoDuplicate ==
    \A g \in Req :
        ( /\ method[g] = "GET" /\ pc[g] = "recv"
          /\ hist[g].body # <<>> /\ ~hist[g].inNext )
        => LET boot == ElemsOf(hist[g].body)
               offered == ElemsOfMsgs(hist[g].offered)
               first == hist[g].body[1][2]
           IN  /\ boot \cap offered = {}
               /\ \A e \in ElemsOfMsgs(accepted[k[g]]) :
                     e >= first => e \in boot \cup offered

\* whether an element is a block
IsBlock(e) == e.name \in {"SimpleBlock", "Block"}

\* bytes begin with the first byte of a Cluster; els[pos] is the element
\* that the tokenizer returned at position pos
ClusterStart(bytes, els) ==
    /\ bytes # <<>>
    /\ bytes[1][3] = 1
    /\ els[bytes[1][2]].name = "Cluster"

\* the positions of the blocks of the leading Cluster of bytes: the blocks
\* with no Cluster between the first element and them
LeadBlocks(bytes, els) ==
    {p \in ElemsOf(bytes) :
        /\ IsBlock(els[p])
        /\ \A q \in ElemsOf(bytes) :
              (q > bytes[1][2] /\ q <= p) => els[q].name # "Cluster"}

\* in the leading Cluster the first block of each track is a keyframe
FirstPerTrackKey(bytes, els) ==
    LET lead == LeadBlocks(bytes, els) IN
    \A p \in lead :
        (\A q \in lead : AsKeyBlock(els[q]).track = AsKeyBlock(els[p]).track
                         => q >= p)
        => AsKeyBlock(els[p]).keyframe

\* C6: in every keeper state after the truncation condition has been met
\* once, body begins with a Cluster and in that Cluster the first block of
\* track 1 and the first block of track 2 that body holds are keyframes
C6_BootstrapValidity ==
    skwk.rap => /\ ClusterStart(skwk.body, skin)
                /\ FirstPerTrackKey(skwk.body, skin)

\* C6 witness: a truncation has dropped an earlier Cluster and body has
\* since grown by a block that is not a keyframe
C6_Witness ==
    /\ skwk.rap
    /\ skwk.body[1][2] > 2
    /\ \E p \in ElemsOf(skwk.body) :
          /\ IsBlock(skin[p])
          /\ ~AsKeyBlock(skin[p]).keyframe

\* in the leading Cluster the first two blocks are of different tracks and
\* both keyframes
FirstTwoKey(bytes, els) ==
    LET lead == LeadBlocks(bytes, els)
        firstTwo == {p \in lead : Cardinality({q \in lead : q < p}) < 2}
    IN  /\ \A p \in firstTwo : AsKeyBlock(els[p]).keyframe
        /\ \A p, q \in firstTwo :
              p # q => AsKeyBlock(els[p]).track # AsKeyBlock(els[q]).track

\* C7: every GET that is answered with a stream receives, after the header,
\* bytes that start at a Cluster whose first two blocks are one per track
\* and both keyframes, whenever it arrives after the keeper is registered
\* (stated for a Bootstrap that ran between two Next calls of the publisher)
C7_StreamStartsAtKeyCluster ==
    \A g \in Req :
        (method[g] = "GET" /\ hist[g].booted /\ ~hist[g].inNext)
        => /\ ClusterStart(hist[g].body, reqBody[k[g]].elems)
           /\ FirstTwoKey(hist[g].body, reqBody[k[g]].elems)

\* s is a subsequence of t: the items of s are in t, in the same order, each
\* item of t used at most once
RECURSIVE IsSubseq(_, _)
IsSubseq(s, t) ==
    IF s = <<>> THEN TRUE
    ELSE IF t = <<>> THEN FALSE
    ELSE IF Head(s) = Head(t) THEN IsSubseq(Tail(s), Tail(t))
    ELSE IsSubseq(s, Tail(t))

\* C8: for every subscriber, the messages it has taken from its queue, and
\* those still in the queue after them, are a subsequence of the messages
\* spin took from the publisher while the queue was in its set
C8_PerSubscriberOrder ==
    \A g \in Req :
        method[g] = "GET"
        => IsSubseq(hist[g].taken \o queue[g], hist[g].offered)

\* C8 witness: a subscriber has taken two messages and was dropped a third
C8_Witness ==
    \E g \in Req :
        /\ method[g] = "GET"
        /\ Len(hist[g].taken) >= 2
        /\ Len(hist[g].offered) > Len(hist[g].taken) + Len(queue[g])

\* C9: in a step in which spin handles a message of publisher p, every queue
\* of the set with room is given the message, every full queue is left as
\* it is, and the publisher goes on to its next element
C9_DropIsolation ==
    [][\A p \in Req :
          accepted'[p] # accepted[p]
          => /\ \A s \in bus[ch[p]].dsts :
                  IF Len(queue[s]) < QueueCap
                  THEN queue'[s] = Append(queue[s], b[p])
                  ELSE queue'[s] = queue[s]
             /\ pc'[p] = "next"]_vars

\* C9 witness: of two subscribers of one bus that were offered the same
\* three messages, one was dropped a message and the other got them all
C9_Witness ==
    \E g1, g2 \in Req :
        /\ g1 # g2
        /\ method[g1] = "GET" /\ method[g2] = "GET"
        /\ Len(hist[g1].offered) = 3
        /\ hist[g2].offered = hist[g1].offered
        /\ Len(hist[g1].taken) + Len(queue[g1]) < 3
        /\ hist[g2].taken \o queue[g2] = hist[g2].offered

\* the status the client of a finished request reads: net/http answers 200
\* when the handler wrote none
Answer(r) == IF status[r] = 0 THEN 200 ELSE status[r]

\* C10: a POST whose stream ends cleanly after a valid header is answered
\* with 200, and 500 is the answer to a mid-stream parse error only
C10_CleanEndIs200 ==
    \A r \in Req :
        (method[r] = "POST" /\ pc[r] = "done" /\ ch[r] # 0 /\ ~panicked[r])
        => /\ err[r] = "eof" => Answer(r) = 200
           /\ Answer(r) = 500 => err[r] # "eof"

\* no POST on channel c is under way: each has ended or has not arrived
NoPostUnderWay(c) ==
    \A q \in Req : (method[q] = "POST" /\ channel[q] = c) => pc[q] = "done"

\* C11: when no publisher is live on a channel (none has published, or every
\* POST on it has ended) no keeper is registered for it, so a GET whose
\* OnOpen runs then is answered 404, is not bootstrapped and joins no bus
C11_NoPublisherIs404 ==
    \A c \in Channels : NoPostUnderWay(c) => ~getKeeper(keepers, c).ok

\* the codes by which OnOpen or GetNext cut a request short
ShortCircuit == {400, 404, 500}

\* C12: OnClose runs at most once per request and as its last step (the
\* request has ended whenever OnClose has run), never for a request that
\* OnOpen or GetNext cut short, and for every request that ends without
\* having been cut short
C12_OnCloseOnceAtEnd ==
    \A r \in Req :
        /\ onClose[r] <= 1
        /\ onClose[r] = 1 => (pc[r] = "done" /\ status[r] \notin ShortCircuit)
        /\ status[r] \in ShortCircuit => onClose[r] = 0
        /\ (pc[r] = "done" /\ status[r] \notin ShortCircuit) => onClose[r] = 1

\***************************************************************************
\* The keeper on a long cluster: New, then one element repeated MaxRun
\* times, then any two elements
\***************************************************************************

\* the length of the run: more than the 255 a count can hold, by two
MaxRun == 257

\* the elements of a long cluster
RunElems == { Cl, K1, N1, K2, N2 }

\* Next() when the stream goes on with element e: the first element is any
\* of RunElems, the run repeats it, and after the run any may follow
SatFeed ==
    /\ skres.op # "none"
    /\ skres.err = "nil"
    /\ skres.n < MaxRun + 2
    /\ \E e \in RunElems :
        /\ (skres.n >= 1 /\ skres.n < MaxRun) => e = skin[Len(skin)]
        /\ \E n \in {Next([skwk EXCEPT !.p.rest = <<e>>])} :
            /\ skwk' = n.wk
            /\ skin' = Append(skin, e)
            /\ skres' = [op |-> "next", err |-> n.err, b |-> n.b,
                         n |-> skres.n + 1]
    /\ UNCHANGED httpVars

SatNext == KeeperNew \/ SatFeed

SpecSat == Init /\ [][SatNext]_vars

\* the position of the last Cluster among els[lo..hi], 0 if there is none
RECURSIVE LastClusterIn(_, _, _)
LastClusterIn(els, lo, hi) ==
    IF lo > hi THEN 0
    ELSE IF lo = hi THEN (IF els[lo].name = "Cluster" THEN lo ELSE 0)
    ELSE LET mid == (lo + hi) \div 2
             pick(upper) == IF upper # 0 THEN upper
                            ELSE LastClusterIn(els, lo, mid)
         IN  pick(LastClusterIn(els, mid + 1, hi))

\* the number of blocks of track t that els holds after its last Cluster
BlocksInCluster(els, t) ==
    LET after(lc) ==
            Cardinality({p \in (lc + 1)..Len(els) :
                            IsBlock(els[p]) /\ AsKeyBlock(els[p]).track = t})
    IN  after(LastClusterIn(els, 1, Len(els)))

\* C13: in every step of the keeper each track's count is the number of
\* blocks the track has had in the cluster, or 255 when it has had more; a
\* block never lowers a count; after more than 255 blocks the count is
\* neither 0 nor 1; and a step that confirms a random-access point happens
\* when each track has had exactly one block in the cluster
C13_SaturatingCounter ==
    [][\A t \in {1, 2} :
          \E n \in {BlocksInCluster(skin', t)} :
          /\ skwk'.trackBlockCount[t] = IF n < 255 THEN n ELSE 255
          /\ skin'[Len(skin')].name # "Cluster"
                => skwk'.trackBlockCount[t] >= skwk.trackBlockCount[t]
          /\ n > 255 => skwk'.trackBlockCount[t] \notin {0, 1}
          /\ (skwk'.rap /\ ~skwk.rap) => n = 1]_vars

\* C13 witness: after 257 keyframes of track 1 in one cluster the first
\* keyframe of track 2 has come, and no random-access point is confirmed
C13_Witness ==
    /\ BlocksInCluster(skin, 1) = 257
    /\ skwk.trackBlockCount = <<255, 1>>
    /\ skwk.trackBlockKeyframe = <<TRUE, TRUE>>
    /\ ~skwk.rap

\* the bytes of the elements els[lo..hi] of a stream read by the keeper
RECURSIVE BytesOf(_, _, _)
BytesOf(els, lo, hi) ==
    IF lo > hi THEN <<>>
    ELSE ElemBytes([name |-> els[lo].name, data |-> els[lo].data,
                    id |-> <<0, lo>>])
         \o BytesOf(els, lo + 1, hi)

\* the one block of track t in the last cluster of els is a keyframe
OneKeyBlock(els, t) ==
    /\ BlocksInCluster(els, t) = 1
    /\ \A p \in (LastClusterIn(els, 1, Len(els)) + 1)..Len(els) :
          (IsBlock(els[p]) /\ AsKeyBlock(els[p]).track = t)
          => AsKeyBlock(els[p]).keyframe

\* the last element of els is a block that leaves its cluster with one
\* block of each track, both keyframes
MakesRandomAccessPoint(els) ==
    /\ IsBlock(els[Len(els)])
    /\ OneKeyBlock(els, 1)
    /\ OneKeyBlock(els, 2)

\* C14: a Next that returns an element truncates body exactly when the
\* element is a block that makes both counts 1 and both keyframe flags
\* true: body is then the bytes from the last Cluster up to and with the
\* element and lastCluster is 0; for any other element body grows by the
\* element alone; and 0 <= lastCluster <= Len(body) in every case
C14_RandomAccessPointRule ==
    [][(skres'.op = "next" /\ skres'.err = "nil")
       => LET els == skin'
              e == els[Len(els)]
          IN  /\ IF MakesRandomAccessPoint(els)
                 THEN /\ skwk'.body =
                            BytesOf(els, LastClusterIn(els, 1, Len(els)),
                                    Len(els))
                      /\ skwk'.lastCluster = 0
                 ELSE /\ skwk'.body = skwk.body \o skres'.b
                      /\ skwk'.lastCluster =
                            IF e.name = "Cluster" THEN Len(skwk.body)
                            ELSE skwk.lastCluster
              /\ skres'.b = BytesOf(els, Len(els), Len(els))
              /\ skwk'.lastCluster >= 0
              /\ skwk'.lastCluster <= Len(skwk'.body)]_vars

\* C14 witness: the last Next has truncated body at a Cluster that was not
\* at its start, dropping the cluster before it
C14_Witness ==
    /\ skres.op = "next" /\ skres.err = "nil"
    /\ MakesRandomAccessPoint(skin)
    /\ skwk.lastCluster = 0
    /\ skwk.body[1][2] > 2
    /\ skwk.body[1][2] = LastClusterIn(skin, 1, Len(skin))

\* a block that decodes and whose track is neither 1 nor 2
ImpossibleTrack(e) ==
    /\ IsBlock(e)
    /\ AsKeyBlock(e).status = "ok"
    /\ AsKeyBlock(e).track \notin {1, 2}

\* C15: a Next that meets a block of a track other than 1 and 2 returns an
\* error and no bytes, and leaves body, lastCluster, both counts and both
\* keyframe flags as they were
C15_ImpossibleTrackNoEffect ==
    [][(skres'.op = "next" /\ skin' # skin
        /\ ImpossibleTrack(skin'[Len(skin')]))
       => /\ skres'.err = "impossible track"
          /\ skres'.b = <<>>
          /\ skwk'.body = skwk.body
          /\ skwk'.lastCluster = skwk.lastCluster
          /\ skwk'.trackBlockCount = skwk.trackBlockCount
          /\ skwk'.trackBlockKeyframe = skwk.trackBlockKeyframe]_vars

\* C15 witness: Next has refused a block of track 0 or 3 in a cluster that
\* had blocks of both tracks, after an earlier cluster
C15_Witness ==
    /\ skres.op = "next"
    /\ skres.err = "impossible track"
    /\ ImpossibleTrack(skin[Len(skin)])
    /\ skwk.trackBlockCount = <<1, 1>>
    /\ skwk.trackBlockKeyframe[1]
    /\ skwk.lastCluster > 0

\* a bus that can still enqueue: its spin runs and its src is open
CanEnqueue(p) == bus[p].spinning /\ ~bus[p].srcClosed

\* C16: the step in which a subscriber whose write failed unsubscribes
\* leaves it in the set of no bus that can still enqueue, leaves every other
\* subscriber's membership and every queue as they were and every publisher
\* where it stood with its bus still able to enqueue; and once a subscriber
\* has ended, no bus handles a message for its queue
C16_SubscriberErrorIsLocal ==
    [][\A r \in Req :
          /\ (pc[r] = "remsub" /\ pc'[r] = "done")
             => /\ \A p \in Req :
                      /\ (bus'[p].spinning /\ ~bus'[p].srcClosed)
                            => r \notin bus'[p].dsts
                      /\ bus'[p].dsts \ {r} = bus[p].dsts \ {r}
                      /\ CanEnqueue(p) => (bus'[p].spinning /\ ~bus'[p].srcClosed)
                /\ queue' = queue
                /\ qclosed' = qclosed
                /\ \A q \in Req \ {r} : pc'[q] = pc[q]
                /\ <<ch, wk, b, keepers, mux>>' = <<ch, wk, b, keepers, mux>>
          /\ (method[r] = "GET" /\ pc[r] = "done")
             => /\ hist'[r].offered = hist[r].offered
                /\ queue'[r] = queue[r]]_vars

\* C16 witness: of two subscribers of one bus, one has taken a message,
\* failed to write it and unsubscribed; the publisher has since published
\* a message that the bus handed to the other
C16_Witness ==
    \E g1, g2, p \in Req :
        /\ g1 # g2
        /\ method[g1] = "GET" /\ method[g2] = "GET"
        /\ pc[g1] = "done" /\ ~qclosed[g1]
        /\ hist[g1].taken # <<>>
        /\ InLoop(p) /\ ch[p] # 0
        /\ g2 \in bus[ch[p]].dsts /\ g1 \notin bus[ch[p]].dsts
        /\ Len(hist[g2].offered) > Len(hist[g1].offered)
        /\ hist[g1].offered # <<>>

\* keeper w after j more calls of Next
RECURSIVE KeeperAfter(_, _)
KeeperAfter(w, j) == IF j = 0 THEN w ELSE KeeperAfter(Next(w).wk, j - 1)

\* the bodies the keeper of POST p holds between two Next calls: after New
\* and after each Next
BodiesBetweenNexts(p) ==
    {KeeperAfter(New(p, reqBody[p]).wk, j).body :
        j \in 0..Len(reqBody[p].elems)}

\* C17: the body that a Bootstrap call wrote is the body of one keeper state
\* between two Next calls, whatever the publisher was doing during the call
C17_BootstrapIsSnapshot ==
    \A g \in Req :
        (method[g] = "GET" /\ hist[g].booted)
        => hist[g].body \in BodiesBetweenNexts(k[g])

\* a block whose payload the decoder cannot decode
Undecodable(e) == IsBlock(e) /\ AsKeyBlock(e).status # "ok"

\* C18: a POST whose stream reaches a block with a payload that is too short
\* ends with the decoder's error: GetNext returns 500 for "malformed block",
\* nothing has faulted, and the request's keeper is no longer registered
C18_ShortBlockIsError ==
    \A r \in Req :
        ( /\ method[r] = "POST" /\ pc[r] = "done" /\ ch[r] # 0
          /\ wk[r].p.pos > 0
          /\ Undecodable(reqBody[r].elems[wk[r].p.pos]) )
        => /\ ~panicked[r]
           /\ err[r] = "malformed block"
           /\ status[r] = 500
           /\ keepers[channel[r]] # r

\* the POST whose keeper produced message msg
ProducerOf(msg) == msg[1][1]

\* C19: every message that the bus has put in a subscriber's queue was
\* produced by the keeper from which the subscriber was bootstrapped
C19_SamePublisher ==
    \A g \in Req :
        (method[g] = "GET" /\ hist[g].booted)
        => \A i \in DOMAIN (hist[g].taken \o queue[g]) :
              ProducerOf((hist[g].taken \o queue[g])[i]) = k[g]

\* C20: a bus in the registry has a running spin and an open sink, so add
\* and remove requests reach a running spin and ClosePubCh closes an open
\* sink; a publisher in its loop holds the registered bus of its channel,
\* so it sends on an open sink and its deferred ClosePubCh closes that sink
\* once; no queue in the set of a running spin is closed, and no queue is in
\* the sets of two running spins, so no queue is sent to after its close or
\* closed twice
C20_CloseSafety ==
    /\ \A c \in Channels :
          mux[c] # 0 => /\ bus[mux[c]].made
                        /\ bus[mux[c]].spinning
                        /\ ~bus[mux[c]].srcClosed
    /\ \A p \in Req :
          InLoop(p) => /\ ch[p] # 0
                       /\ mux[channel[p]] = ch[p]
                       /\ ~bus[ch[p]].srcClosed
    /\ \A p \in Req :
          bus[p].spinning => \A s \in bus[p].dsts : ~qclosed[s]
    /\ \A p, q \in Req :
          (p # q /\ bus[p].spinning /\ bus[q].spinning)
          => bus[p].dsts \cap bus[q].dsts = {}

\* C20 witness: one bus has been closed and its spin has closed the queue
\* of its subscriber, and a later publisher on the channel is about to send
\* on the sink of the bus that is registered now
C20_Witness ==
    \E p1, p2, g \in Req :
        /\ p1 # p2
        /\ bus[p1].made /\ ~bus[p1].spinning
        /\ g \in bus[p1].dsts /\ qclosed[g]
        /\ InLoop(p2) /\ pc[p2] = "send"
        /\ ch[p2] # p1
        /\ bus[ch[p2]].spinning

====
